---- MODULE Spec2Model ----
(***************************************************************************)
(* Ticket inventory and booking/refund state machine of UKConnectDB        *)
(* (src/database/database.py) over the SQLite schema of                    *)
(* src/utils/create_schema.py.                                             *)
(*                                                                         *)
(* Every call of the tool layer opens its own sqlite3 connection           *)
(* (src/tools/ticket_tools.py get_database_connection), so a connection    *)
(* is one caller.  The store is SQLite in its default rollback-journal     *)
(* mode with Python's default (deferred) transaction handling:             *)
(*   - a connection that reads inside a transaction holds a SHARED lock    *)
(*     until it commits or rolls back;                                     *)
(*   - the first write of a transaction takes the RESERVED lock, of which  *)
(*     there is one; a SHARED holder that asks for it while another        *)
(*     connection has it is refused at once ("database is locked");        *)
(*   - COMMIT needs every other connection's SHARED lock gone, and gives   *)
(*     up with "database is locked" when the busy timeout expires;         *)
(*   - uncommitted writes are visible to their own connection only.        *)
(* Money is in pence, times are whole hours, a booking reference is the    *)
(* sequence of decimal digits after the letters UKC.                       *)
(***************************************************************************)
EXTENDS Integers, Sequences, FiniteSets, TLC

\* ---------------------------------------------------------------- bounds
NTickets == 2       \* available tickets in the initial inventory
MaxOps == 3         \* operations started in one behaviour
MaxFaults == 1      \* store failures and busy timeouts in one behaviour

\* ------------------------------------------------------ program constants
Now == 0            \* SYSTEM_CURRENT_TIME, the origin of the hour scale
MaxAttempts == 10   \* max_attempts of the reference allocation loop

Conn == {"c1", "c2"}

\* the caller on connection c1 is customer a@x.uk, the caller on c2 is
\* b@x.uk; zz@x.uk is nobody's address
EmailInputs(c) == {IF c = "c1" THEN "a@x.uk" ELSE "b@x.uk", "zz@x.uk"}

\* the free-text payment labels of the callers: none, two spellings of a
\* known method and a method the store does not know
LabelInputs == {"", "Credit Card", "CreditCard", "Cash"}

\* payment_method.lower().replace(' ', '_')
LowerUnderscore(label) ==
    CASE label = "Credit Card" -> "credit_card"
      [] label = "CreditCard"  -> "creditcard"
      [] label = "Cash"        -> "cash"
      [] OTHER                 -> label

payment_method_mapping ==
    [k \in {"apple_pay", "applepay", "google_pay", "googlepay", "credit_card",
            "creditcard", "debit_card", "debitcard", "paypal", "bank_transfer",
            "banktransfer", "voucher", "loyalty_points", "loyaltypoints",
            "corporate_account", "corporateaccount"} |->
        CASE k = "applepay"         -> "apple_pay"
          [] k = "googlepay"        -> "google_pay"
          [] k = "creditcard"       -> "credit_card"
          [] k = "debitcard"        -> "debit_card"
          [] k = "banktransfer"     -> "bank_transfer"
          [] k = "loyaltypoints"    -> "loyalty_points"
          [] k = "corporateaccount" -> "corporate_account"
          [] OTHER                  -> k]

\* an empty label is credit_card; a label that is not a key of the mapping
\* is returned as normalized, payment_method_mapping.get(normalized, normalized)
normalize_payment_method(label) ==
    IF label = "" THEN "credit_card"
    ELSE LET normalized == LowerUnderscore(label)
         IN  IF normalized \in DOMAIN payment_method_mapping
             THEN payment_method_mapping[normalized]
             ELSE normalized

\* the payment methods the tool layer hands to book_ticket
PaymentInputs == {normalize_payment_method(label) : label \in LabelInputs}

SeedStatuses == {"confirmed", "used", "cancelled", "refunded"}

NoRef == <<>>

Max(S) == CHOOSE x \in S : \A y \in S : y <= x

MaxOf(a, b) == IF a >= b THEN a ELSE b

\* ------------------------------------------------------------ customers
\* customer_info is populated outside the engine and never written by it:
\* id of the customer with this email, 0 when there is none.
find_customer_by_email(email) ==
    CASE email = "a@x.uk" -> 1
      [] email = "b@x.uk" -> 2
      [] OTHER -> 0

\* the email addresses in customer_info
CustomerEmails == {"a@x.uk", "b@x.uk"}

\* transaction_info.payment_method CHECK constraint
PaymentMethodCheck(pm) ==
    pm \in {"credit_card", "debit_card", "paypal", "bank_transfer", "voucher",
            "apple_pay", "google_pay", "loyalty_points", "corporate_account"}

\* ------------------------------------------------------- inventory rows
\* The populated inventory: ticket type, prices and departure of ticket i.
TicketFixture(i) ==
    CASE i % 4 = 1 -> [status |-> "available", cls |-> "standard",
                       base |-> 6000, price |-> 6750, dep |-> Now + 10, seat |-> i,
                       frm |-> "London Euston", dst |-> "Manchester Piccadilly"]
      [] i % 4 = 2 -> [status |-> "available", cls |-> "flexible",
                       base |-> 8000, price |-> 8900, dep |-> Now + 48, seat |-> i,
                       frm |-> "Manchester Piccadilly", dst |-> "London Euston"]
      [] i % 4 = 3 -> [status |-> "available", cls |-> "first_class",
                       base |-> 900, price |-> 750, dep |-> Now - 2, seat |-> i,
                       frm |-> "London King's Cross", dst |-> "Edinburgh Waverley"]
      [] OTHER     -> [status |-> "available", cls |-> "standard",
                       base |-> 7000, price |-> 6750, dep |-> Now + 3, seat |-> i,
                       frm |-> "London Euston", dst |-> "Manchester Piccadilly"]

\* loyalty points: max(1, int(current_price * 0.1)), price in pence
LoyaltyPoints(price) == MaxOf(1, price \div 1000)

\* ------------------------------------------------- booking references
RECURSIVE Digits(_)
Digits(n) == IF n < 10 THEN <<n>> ELSE Digits(n \div 10) \o <<n % 10>>

\* f"UKC{n:03d}": at least three digits, zero padded, more when n >= 1000
FormatReference(n) ==
    LET ds == Digits(n)
        pad == 3 - Len(ds)
    IN  IF pad <= 0 THEN ds
        ELSE [i \in 1..3 |-> IF i <= pad THEN 0 ELSE ds[i - pad]]

\* CAST(SUBSTR(booking_reference, 4) AS INTEGER)
RECURSIVE RefNumber(_)
RefNumber(ref) ==
    IF ref = <<>> THEN 0
    ELSE RefNumber(SubSeq(ref, 1, Len(ref) - 1)) * 10 + ref[Len(ref)]

\* LENGTH(booking_reference)
RefLength(ref) == 3 + Len(ref)

\* SELECT MAX(CAST(SUBSTR(booking_reference, 4) AS INTEGER)) FROM booked_tickets
\* WHERE booking_reference LIKE 'UKC%' AND LENGTH(booking_reference) = 6
MaxBookingNum(d) ==
    LET S == {RefNumber(b.ref) : b \in {x \in d.bookings : RefLength(x.ref) = 6}}
    IN  IF S = {} THEN 0 ELSE Max(S)

ReferenceExists(d, ref) == \E b \in d.bookings : b.ref = ref

\* the allocation loop: the candidate of the first attempt whose reference
\* is free, and the candidate of the last attempt when none is
RECURSIVE GenerateReference(_, _)
GenerateReference(d, attempt) ==
    LET cand == FormatReference(MaxBookingNum(d) + 1 + attempt)
    IN  IF ReferenceExists(d, cand) /\ attempt < MaxAttempts - 1
        THEN GenerateReference(d, attempt + 1)
        ELSE cand

\* ------------------------------------------------------------ inventory
\* the WHERE clause when it tests the id only
IsAvailableAnyStatus(d, tid) == tid \in DOMAIN d.tickets

\* WHERE id = ? AND availability_status = 'available'
IsAvailable(d, tid) ==
    tid \in DOMAIN d.tickets /\ d.tickets[tid].status = "available"

\* UPDATE available_tickets SET availability_status = 'sold' WHERE ...
MarkSold(d, tid) ==
    IF IsAvailable(d, tid)
    THEN [d EXCEPT !.tickets[tid].status = "sold"]
    ELSE d

\* the Booking row when the paid price is taken from the base price
BookingRowPaidBase(bid, ref, cust, tid, t) ==
    [id |-> bid, ref |-> ref, cust |-> cust, src |-> tid,
     cls |-> t.cls, orig |-> t.base, paid |-> t.base,
     dep |-> t.dep, seat |-> t.seat, frm |-> t.frm, dst |-> t.dst,
     status |-> "confirmed", travel |-> "upcoming",
     points |-> LoyaltyPoints(t.base)]

\* the Booking row book builds from the available ticket
BookingRow(bid, ref, cust, tid, t) ==
    [id |-> bid, ref |-> ref, cust |-> cust, src |-> tid,
     cls |-> t.cls, orig |-> t.base, paid |-> t.price,
     dep |-> t.dep, seat |-> t.seat, frm |-> t.frm, dst |-> t.dst,
     status |-> "confirmed", travel |-> "upcoming",
     points |-> LoyaltyPoints(t.price)]

PurchaseRow(cust, bid, ref, t, pm) ==
    [cust |-> cust, bid |-> bid, ref |-> ref, type |-> "purchase",
     amount |-> t.price, pm |-> pm, status |-> "completed"]

BookedHistoryRow(bid) ==
    [bid |-> bid, action |-> "booked", old |-> "available", new |-> "confirmed"]

\* the reissued row when it is priced at the booking's original (base) price
ReissuedTicketAtOriginalPrice(b) ==
    [status |-> "available", cls |-> b.cls, base |-> b.orig, price |-> b.orig,
     dep |-> b.dep, seat |-> b.seat, frm |-> b.frm, dst |-> b.dst]

\* the AvailableTicket row refund builds from the booked ticket
ReissuedTicket(b) ==
    [status |-> "available", cls |-> b.cls, base |-> b.paid, price |-> b.paid,
     dep |-> b.dep, seat |-> b.seat, frm |-> b.frm, dst |-> b.dst]

RefundedHistoryRow(b) ==
    [bid |-> b.id, action |-> "refunded", old |-> "confirmed", new |-> "refunded"]

RefundRow(b, ref, amount) ==
    [cust |-> b.cust, bid |-> b.id, ref |-> ref, type |-> "refund",
     amount |-> amount, pm |-> "credit_card", status |-> "completed"]

\* DELETE FROM booked_tickets when the connection enforces foreign keys: the
\* ON DELETE CASCADE clauses of transaction_info and booking_history remove
\* the rows that reference the deleted booking
DeleteBookingCascades(d, ref) ==
    LET gone == {b.id : b \in {x \in d.bookings : x.ref = ref}}
        keep(row) == row.bid \notin gone
    IN  [d EXCEPT !.bookings = {b \in @ : b.ref # ref},
                  !.txs = SelectSeq(@, keep),
                  !.hist = SelectSeq(@, keep)]

\* DELETE FROM booked_tickets WHERE booking_reference = ?  on a connection
\* opened by sqlite3.connect without PRAGMA foreign_keys: no cascade
DeleteBooking(d, ref) ==
    [d EXCEPT !.bookings = {b \in @ : b.ref # ref}]

\* ---------------------------------------------------------- refund rules
\* the rows create_schema inserts into refund_rules
RefundRules ==
    { [cls |-> "flexible",    hours |-> 0,  pct |-> 100, fee |-> 0,    active |-> TRUE],
      [cls |-> "standard",    hours |-> 24, pct |-> 100, fee |-> 0,    active |-> TRUE],
      [cls |-> "standard",    hours |-> 4,  pct |-> 75,  fee |-> 2500, active |-> TRUE],
      [cls |-> "standard",    hours |-> 0,  pct |-> 50,  fee |-> 5000, active |-> TRUE],
      [cls |-> "first_class", hours |-> 24, pct |-> 100, fee |-> 0,    active |-> TRUE],
      [cls |-> "first_class", hours |-> 4,  pct |-> 75,  fee |-> 5000, active |-> TRUE],
      [cls |-> "first_class", hours |-> 0,  pct |-> 50,  fee |-> 7500, active |-> TRUE] }

\* the WHERE clause when it does not test is_active
ApplicableRulesAnyActivity(rules, cls, h) ==
    {r \in rules : r.cls = cls /\ r.hours <= h}

\* WHERE ticket_type = ? AND hours_before_departure <= ? AND is_active = 1
ApplicableRules(rules, cls, h) ==
    {r \in rules : r.cls = cls /\ r.hours <= h /\ r.active}

\* the ORDER BY when it sorts ascending: the smallest threshold wins
SelectRuleLowest(rules, cls, h) ==
    CHOOSE r \in ApplicableRules(rules, cls, h) :
        \A q \in ApplicableRules(rules, cls, h) : q.hours >= r.hours

\* ORDER BY hours_before_departure DESC LIMIT 1
SelectRule(rules, cls, h) ==
    CHOOSE r \in ApplicableRules(rules, cls, h) :
        \A q \in ApplicableRules(rules, cls, h) : q.hours <= r.hours

\* (price * (refund_percentage / 100)) - cancellation_fee, in 1/100 pence.
\* Prices and fees are multiples of 0.25 pounds and percentages multiples of
\* 25, so every float of the computation is exact.
RefundRaw(paid, pct, fee) == paid * pct - fee * 100

\* refund_amount = max(0, refund_amount) left out
RefundRawUnclamped(raw) == raw

\* refund_amount = max(0, refund_amount)
RefundRawClamped(raw) == MaxOf(0, raw)

\* round(x, 2) of Python on an exactly represented x: x is raw/100 pence,
\* the result is in pence, ties go to the even neighbour
Round2(raw) ==
    LET q == raw \div 100
        r == raw % 100
    IN  IF r > 50 \/ (r = 50 /\ q % 2 = 1) THEN q + 1 ELSE q

\* hours until departure when a past departure counts as zero hours
HoursUntilDepartureClamped(dep) == MaxOf(0, dep - Now)

\* hours_until_departure = (departure_time - now).total_seconds() / 3600
HoursUntilDeparture(dep) == dep - Now

\* the {'error': ...} results of calculate_refund_amount
CalcError(kind) == [kind |-> kind, amount |-> 0, pct |-> 0, fee |-> 0]

\* calculate_refund_amount without the test of booking_status
CalculateRefundAmountAnyStatus(d, ref) ==
    LET rows == {b \in d.bookings : b.ref = ref}
    IN  IF rows = {} THEN CalcError("BookingNotFound")
        ELSE LET b == CHOOSE x \in rows : TRUE
                 h == HoursUntilDeparture(b.dep)
             IN  IF ApplicableRules(d.rules, b.cls, h) = {}
                 THEN CalcError("NoApplicableRule")
                 ELSE LET rule == SelectRule(d.rules, b.cls, h)
                          raw == RefundRaw(b.paid, rule.pct, rule.fee)
                      IN  [kind |-> "ok", amount |-> Round2(RefundRawClamped(raw)),
                           pct |-> rule.pct, fee |-> rule.fee]

\* calculate_refund_amount: kind "ok" carries the amount in pence, the
\* percentage and the fee of the rule used
CalculateRefundAmount(d, ref) ==
    LET rows == {b \in d.bookings : b.ref = ref}
    IN  IF rows = {} THEN CalcError("BookingNotFound")
        ELSE LET b == CHOOSE x \in rows : TRUE
                 h == HoursUntilDeparture(b.dep)
             IN  IF b.status \in {"used", "cancelled", "refunded"}
                 THEN CalcError("NotRefundable")
                 ELSE IF ApplicableRules(d.rules, b.cls, h) = {}
                 THEN CalcError("NoApplicableRule")
                 ELSE LET rule == SelectRule(d.rules, b.cls, h)
                          raw == RefundRaw(b.paid, rule.pct, rule.fee)
                      IN  [kind |-> "ok", amount |-> Round2(RefundRawClamped(raw)),
                           pct |-> rule.pct, fee |-> rule.fee]

\* ------------------------------------------------------ customer queries
\* find_active_customer_tickets: the references of the customer's bookings
\* WHERE booking_status = 'confirmed' AND departure_time > current time
find_active_customer_tickets(d, email) ==
    {b.ref : b \in {x \in d.bookings : /\ x.cust = find_customer_by_email(email)
                                        /\ x.status = "confirmed"
                                        /\ x.dep > Now}}

\* get_customer_bookings: the references of all the customer's bookings
get_customer_bookings(d, email) ==
    {b.ref : b \in {x \in d.bookings : x.cust = find_customer_by_email(email)}}

\* ------------------------------------------------------------------ state
VARIABLES
    db,      \* the committed store: what a fresh connection reads
    pc,      \* per connection: the statement its call executes next
    lock,    \* per connection: SQLite lock held (none, shared, reserved)
    work,    \* per connection: the store as seen inside its open write transaction
    loc,     \* per connection: arguments and local variables of the call
    res,     \* per connection: the result its last call returned
    nops,    \* operations started
    faults,  \* store failures and busy timeouts so far
    issued   \* booking references returned by successful book calls

vars == <<db, pc, lock, work, loc, res, nops, faults, issued>>

EmptyDB ==
    [tickets |-> <<>>, bookings |-> {}, txs |-> <<>>, hist |-> <<>>, seqB |-> 0,
     rules |-> {}]

NoTicket ==
    [status |-> "none", cls |-> "none", base |-> 0, price |-> 0, dep |-> 0, seat |-> 0,
     frm |-> "", dst |-> ""]

NoBooking ==
    [id |-> 0, ref |-> NoRef, cust |-> 0, src |-> 0, cls |-> "none", orig |-> 0,
     paid |-> 0, dep |-> 0, seat |-> 0, frm |-> "", dst |-> "",
     status |-> "none", travel |-> "none", points |-> 0]

NoLoc ==
    [op |-> "none", email |-> "", tid |-> 0, pm |-> "", cust |-> 0, at |-> NoTicket,
     ref |-> NoRef, bid |-> 0, bk |-> NoBooking, amount |-> 0, pct |-> 0, y |-> 0,
     raced |-> FALSE]

\* the arguments of search_available_tickets: a text is "" and a number is
\* not set when the argument is None
NoFilters ==
    [from |-> "", to |-> "", date |-> [set |-> FALSE, v |-> 0], cls |-> "",
     price |-> [set |-> FALSE, v |-> 0]]

Result(op, kind, tid, ref, bid, y, amount) ==
    [op |-> op, kind |-> kind, tid |-> tid, ref |-> ref, bid |-> bid, y |-> y,
     amount |-> amount, pct |-> 0, fee |-> 0, found |-> {}, query |-> NoFilters,
     at |-> "idle", raced |-> FALSE]

NoResult == Result("none", "none", 0, NoRef, 0, 0, 0)

\* The store after population: ticket 1 was sold to customer 1 as booking
\* UKC001 (populate_data books the first tickets of the inventory this way),
\* tickets 2..NTickets+1 are available.
SeedBooking(st) ==
    [BookingRow(1, FormatReference(1), 1, 1, TicketFixture(1)) EXCEPT !.status = st]

SeedDB(st) ==
    [tickets  |-> [i \in 1..(NTickets + 1) |->
                     IF i = 1 THEN [TicketFixture(1) EXCEPT !.status = "sold"]
                     ELSE TicketFixture(i)],
     bookings |-> {SeedBooking(st)},
     txs      |-> <<PurchaseRow(1, 1, FormatReference(1), TicketFixture(1), "credit_card")>>,
     hist     |-> <<[bid |-> 1, action |-> "booked", old |-> "none", new |-> "confirmed"]>>,
     seqB     |-> 1,
     rules    |-> RefundRules]

Init ==
    /\ \E st \in SeedStatuses : db = SeedDB(st)
    /\ pc = [c \in Conn |-> "idle"]
    /\ lock = [c \in Conn |-> "none"]
    /\ work = [c \in Conn |-> EmptyDB]
    /\ loc = [c \in Conn |-> NoLoc]
    /\ res = [c \in Conn |-> NoResult]
    /\ nops = 0
    /\ faults = 0
    /\ issued = {}

\* --------------------------------------------------------------- helpers
OthersHold(c, l) == \E o \in Conn \ {c} : lock[o] = l

OthersHoldAny(c) == \E o \in Conn \ {c} : lock[o] # "none"

\* the call of c returns r; its locals die with it.  The result records the
\* statement the call returned from (at) and whether another book call on the
\* same ticket id was in progress during the call (raced).
Return(c, r) ==
    /\ pc' = [pc EXCEPT ![c] = "idle"]
    /\ loc' = [loc EXCEPT ![c] = NoLoc]
    /\ res' = [res EXCEPT ![c] = [r EXCEPT !.at = pc[c], !.raced = loc[c].raced]]

\* ROLLBACK: the open transaction's writes are discarded, the locks released
Rollback(c) ==
    /\ db' = db
    /\ work' = [work EXCEPT ![c] = EmptyDB]
    /\ lock' = [lock EXCEPT ![c] = "none"]

\* COMMIT: the transaction's writes become the committed store
Commit(c) ==
    /\ db' = work[c]
    /\ work' = [work EXCEPT ![c] = EmptyDB]
    /\ lock' = [lock EXCEPT ![c] = "none"]

\* book's error path when it commits what the call has written so far
BookFailedKeepsWrites(c, kind) ==
    /\ IF lock[c] = "reserved" THEN Commit(c) ELSE Rollback(c)
    /\ Return(c, Result("book", kind, loc[c].tid, NoRef, 0, 0, 0))

\* book returns {'error': ...}: every error path of book_ticket rolls back
BookFailed(c, kind) ==
    /\ Rollback(c)
    /\ Return(c, Result("book", kind, loc[c].tid, NoRef, 0, 0, 0))

\* refund's error path when it commits what the call has written so far
RefundFailedKeepsWrites(c, kind) ==
    /\ IF lock[c] = "reserved" THEN Commit(c) ELSE Rollback(c)
    /\ Return(c, Result("refund", kind, 0, loc[c].ref, 0, 0, 0))

\* refund returns {'error': ...}
RefundFailed(c, kind) ==
    /\ Rollback(c)
    /\ Return(c, Result("refund", kind, 0, loc[c].ref, 0, 0, 0))

\* ------------------------------------------------------------------ book
\* the other connections with a book call on ticket tid in progress
Rivals(c, tid) == {o \in Conn \ {c} : loc[o].op = "book" /\ loc[o].tid = tid}

\* BEGIN TRANSACTION, find_customer_by_email, the ticket id validation and
\* the SELECT of the available ticket.  The first read takes the SHARED
\* lock, which the connection keeps, so all three see one committed state.
BookBegin(c, email, tid, pm) ==
    /\ pc[c] = "idle"
    /\ nops < MaxOps
    /\ nops' = nops + 1
    /\ UNCHANGED <<faults, issued>>
    /\ LET cust == find_customer_by_email(email)
           fail(kind) == /\ Rollback(c)
                         /\ Return(c, Result("book", kind, tid, NoRef, 0, 0, 0))
       IN  IF cust = 0 THEN fail("CustomerNotFound")
           ELSE IF tid <= 0 THEN fail("InvalidTicketId")
           ELSE IF ~IsAvailable(db, tid) THEN fail("TicketNotAvailable")
           ELSE /\ pc' = [pc EXCEPT ![c] = "b_update"]
                /\ lock' = [lock EXCEPT ![c] = "shared"]
                /\ loc' = [o \in Conn |->
                             IF o = c
                             THEN [NoLoc EXCEPT !.op = "book", !.email = email,
                                                !.tid = tid, !.pm = pm, !.cust = cust,
                                                !.at = db.tickets[tid],
                                                !.raced = Rivals(c, tid) # {}]
                             ELSE IF o \in Rivals(c, tid)
                             THEN [loc[o] EXCEPT !.raced = TRUE]
                             ELSE loc[o]]
                /\ res' = [res EXCEPT ![c] = NoResult]
                /\ UNCHANGED <<db, work>>

\* UPDATE ... SET availability_status = 'sold' WHERE id = ? AND status = 'available'
\* and the rowcount test.  The UPDATE needs the RESERVED lock: SQLite refuses
\* it at once to a SHARED holder when another connection has it.
BookMarkSold(c) ==
    /\ pc[c] = "b_update"
    /\ UNCHANGED <<nops, faults, issued>>
    /\ IF OthersHold(c, "reserved")
       THEN BookFailed(c, "StorageError")
       ELSE IF ~IsAvailable(db, loc[c].tid)
       THEN BookFailed(c, "TicketAlreadySold")
       ELSE /\ lock' = [lock EXCEPT ![c] = "reserved"]
            /\ work' = [work EXCEPT ![c] = MarkSold(db, loc[c].tid)]
            /\ pc' = [pc EXCEPT ![c] = "b_insert_booking"]
            /\ UNCHANGED <<db, loc, res>>

\* the reference allocation loop and INSERT INTO booked_tickets; the UNIQUE
\* constraint on booking_reference raises IntegrityError
BookInsertBooking(c) ==
    /\ pc[c] = "b_insert_booking"
    /\ UNCHANGED <<nops, faults, issued>>
    /\ LET w == work[c]
           ref == GenerateReference(w, 0)
           bid == w.seqB + 1
       IN  IF ReferenceExists(w, ref)
           THEN BookFailed(c, "StorageError")
           ELSE /\ work' = [work EXCEPT ![c] =
                      [w EXCEPT !.bookings = @ \cup
                                    {BookingRow(bid, ref, loc[c].cust, loc[c].tid, loc[c].at)},
                                !.seqB = bid]]
                /\ loc' = [loc EXCEPT ![c].ref = ref, ![c].bid = bid]
                /\ pc' = [pc EXCEPT ![c] = "b_insert_tx"]
                /\ UNCHANGED <<db, lock, res>>

\* INSERT INTO transaction_info; the CHECK on payment_method raises IntegrityError
BookInsertTransaction(c) ==
    /\ pc[c] = "b_insert_tx"
    /\ UNCHANGED <<nops, faults, issued>>
    /\ IF ~PaymentMethodCheck(loc[c].pm)
       THEN BookFailed(c, "StorageError")
       ELSE /\ work' = [work EXCEPT ![c].txs =
                  Append(@, PurchaseRow(loc[c].cust, loc[c].bid, loc[c].ref,
                                        loc[c].at, loc[c].pm))]
            /\ pc' = [pc EXCEPT ![c] = "b_insert_hist"]
            /\ UNCHANGED <<db, lock, loc, res>>

\* INSERT INTO booking_history
BookInsertHistory(c) ==
    /\ pc[c] = "b_insert_hist"
    /\ UNCHANGED <<nops, faults, issued>>
    /\ work' = [work EXCEPT ![c].hist = Append(@, BookedHistoryRow(loc[c].bid))]
    /\ pc' = [pc EXCEPT ![c] = "b_commit"]
    /\ UNCHANGED <<db, lock, loc, res>>

\* self.conn.commit() and the success result; the commit waits until no
\* other connection holds a lock
BookCommit(c) ==
    /\ pc[c] = "b_commit"
    /\ ~OthersHoldAny(c)
    /\ Commit(c)
    /\ Return(c, Result("book", "success", loc[c].tid, loc[c].ref, loc[c].bid, 0, 0))
    /\ issued' = issued \cup {loc[c].ref}
    /\ UNCHANGED <<nops, faults>>

\* ---------------------------------------------------------------- refund
\* get_booked_ticket_details and the status test of refund_ticket: a read in
\* autocommit mode, no lock is kept
RefundBegin(c, ref) ==
    /\ pc[c] = "idle"
    /\ nops < MaxOps
    /\ nops' = nops + 1
    /\ UNCHANGED <<faults, issued>>
    /\ LET rows == {b \in db.bookings : b.ref = ref}
           fail(kind) == /\ Rollback(c)
                         /\ Return(c, Result("refund", kind, 0, ref, 0, 0, 0))
       IN  IF rows = {} THEN fail("BookingNotFound")
           ELSE LET b == CHOOSE x \in rows : TRUE
                IN  IF b.status \in {"cancelled", "refunded"}
                    THEN fail("AlreadyRefundedOrCancelled")
                    ELSE /\ pc' = [pc EXCEPT ![c] = "r_calc"]
                         /\ loc' = [loc EXCEPT ![c] =
                                      [NoLoc EXCEPT !.op = "refund", !.ref = ref, !.bk = b]]
                         /\ res' = [res EXCEPT ![c] = NoResult]
                         /\ UNCHANGED <<db, lock, work>>

\* refund_calc = self.calculate_refund_amount(booking_reference): a second
\* read of the committed store
RefundCalculate(c) ==
    /\ pc[c] = "r_calc"
    /\ UNCHANGED <<nops, faults, issued>>
    /\ LET calc == CalculateRefundAmount(db, loc[c].ref)
       IN  IF calc.kind # "ok"
           THEN RefundFailed(c, calc.kind)
           ELSE /\ loc' = [loc EXCEPT ![c].amount = calc.amount, ![c].pct = calc.pct]
                /\ pc' = [pc EXCEPT ![c] = "r_insert_ticket"]
                /\ UNCHANGED <<db, lock, work, res>>

\* the INSERT of refund on a connection in autocommit mode: the new row is
\* committed by the statement itself
RefundInsertTicketAutocommit(c) ==
    /\ pc[c] = "r_insert_ticket"
    /\ ~OthersHoldAny(c)
    /\ lock' = [lock EXCEPT ![c] = "reserved"]
    /\ db' = [db EXCEPT !.tickets = Append(@, ReissuedTicket(loc[c].bk))]
    /\ work' = [work EXCEPT ![c] = db']
    /\ loc' = [loc EXCEPT ![c].y = Len(db.tickets) + 1]
    /\ pc' = [pc EXCEPT ![c] = "r_insert_hist"]
    /\ UNCHANGED <<res, nops, faults, issued>>

\* the INSERT of refund when it puts the booking's original inventory row
\* back on sale instead of adding a row
RefundInsertTicketResurrects(c) ==
    /\ pc[c] = "r_insert_ticket"
    /\ ~OthersHold(c, "reserved")
    /\ lock' = [lock EXCEPT ![c] = "reserved"]
    /\ work' = [work EXCEPT ![c] =
                  [db EXCEPT !.tickets[loc[c].bk.src].status = "available"]]
    /\ loc' = [loc EXCEPT ![c].y = loc[c].bk.src]
    /\ pc' = [pc EXCEPT ![c] = "r_insert_hist"]
    /\ UNCHANGED <<db, res, nops, faults, issued>>

\* INSERT INTO available_tickets: the first write, before which the sqlite3
\* module opens a transaction; it waits for the RESERVED lock
RefundInsertTicket(c) ==
    /\ pc[c] = "r_insert_ticket"
    /\ ~OthersHold(c, "reserved")
    /\ lock' = [lock EXCEPT ![c] = "reserved"]
    /\ work' = [work EXCEPT ![c] =
                  [db EXCEPT !.tickets = Append(@, ReissuedTicket(loc[c].bk))]]
    /\ loc' = [loc EXCEPT ![c].y = Len(db.tickets) + 1]
    /\ pc' = [pc EXCEPT ![c] = "r_insert_hist"]
    /\ UNCHANGED <<db, res, nops, faults, issued>>

\* INSERT INTO booking_history, before the booked ticket is deleted
RefundInsertHistory(c) ==
    /\ pc[c] = "r_insert_hist"
    /\ work' = [work EXCEPT ![c].hist = Append(@, RefundedHistoryRow(loc[c].bk))]
    /\ pc' = [pc EXCEPT ![c] = "r_insert_tx"]
    /\ UNCHANGED <<db, lock, loc, res, nops, faults, issued>>

\* INSERT INTO transaction_info (the refund)
RefundInsertTransaction(c) ==
    /\ pc[c] = "r_insert_tx"
    /\ work' = [work EXCEPT ![c].txs =
                  Append(@, RefundRow(loc[c].bk, loc[c].ref, loc[c].amount))]
    /\ pc' = [pc EXCEPT ![c] = "r_delete"]
    /\ UNCHANGED <<db, lock, loc, res, nops, faults, issued>>

\* DELETE FROM booked_tickets WHERE booking_reference = ?
RefundDelete(c) ==
    /\ pc[c] = "r_delete"
    /\ work' = [work EXCEPT ![c] = DeleteBooking(@, loc[c].ref)]
    /\ pc' = [pc EXCEPT ![c] = "r_commit"]
    /\ UNCHANGED <<db, lock, loc, res, nops, faults, issued>>

\* self.conn.commit() and the success result
RefundCommit(c) ==
    /\ pc[c] = "r_commit"
    /\ ~OthersHoldAny(c)
    /\ Commit(c)
    /\ Return(c, [Result("refund", "success", 0, loc[c].ref, loc[c].bk.id, loc[c].y,
                         loc[c].amount) EXCEPT !.pct = loc[c].pct])
    /\ UNCHANGED <<nops, faults, issued>>

\* ------------------------------------------------------- store failures
WritePhase(c) ==
    pc[c] \in {"b_insert_booking", "b_insert_tx", "b_insert_hist", "b_commit",
               "r_insert_ticket", "r_insert_hist", "r_insert_tx", "r_delete", "r_commit"}

\* a write or the commit raises sqlite3.Error: an I/O failure of the store at
\* any statement, or the busy timeout when the statement waits for a lock
StoreFailure(c) ==
    /\ WritePhase(c)
    /\ faults < MaxFaults
    /\ faults' = faults + 1
    /\ IF loc[c].op = "book" THEN BookFailed(c, "StorageError")
                             ELSE RefundFailed(c, "StorageError")
    /\ UNCHANGED <<nops, issued>>

\* ------------------------------------------------------------------ reads
\* calculate_refund_amount called on its own
CalculateRefund(c, ref) ==
    /\ pc[c] = "idle"
    /\ nops < MaxOps
    /\ nops' = nops + 1
    /\ LET calc == CalculateRefundAmount(db, ref)
       IN  Return(c, [Result("calculate", calc.kind, 0, ref, 0, 0, calc.amount)
                         EXCEPT !.pct = calc.pct, !.fee = calc.fee])
    /\ UNCHANGED <<db, lock, work, faults, issued>>

\* normalize_location_input(text)["stations"] on the part of
\* CITY_STATION_MAP the inventory uses: a city gives its stations, a station
\* name itself, and a text that matches neither gives the empty list
Resolve(text) ==
    CASE text = "london"     -> {"London Euston", "London King's Cross"}
      [] text = "manchester" -> {"Manchester Piccadilly"}
      [] text = "edinburgh"  -> {"Edinburgh Waverley"}
      [] text = "london euston" -> {"London Euston"}
      [] OTHER -> {}

\* DATE(departure_time) as a day number, day 0 being the day of the current
\* time, which is 14:30 on that day
Date(t) == (2 * t + 29) \div 48

\* if from_station: ... if from_info["stations"]: query += " AND from_station
\* IN (...)": the clause is added for a non-empty text with a non-empty
\* station list only
StationClause(text, station) ==
    (text # "" /\ Resolve(text) # {}) => station \in Resolve(text)

\* if max_price: query += " AND current_price <= ?": a max_price of 0 is
\* falsy and adds no clause
PriceClause(price, current) ==
    (price.set /\ price.v # 0) => current <= price.v

\* the rows the query of search_available_tickets selects
SearchTickets(d, f) ==
    {i \in DOMAIN d.tickets :
        LET t == d.tickets[i]
        IN  /\ t.status = "available"
            /\ StationClause(f.from, t.frm)
            /\ StationClause(f.to, t.dst)
            /\ (f.date.set => Date(t.dep) >= f.date.v)
            /\ (f.cls # "" => t.cls = f.cls)
            /\ PriceClause(f.price, t.price)
            /\ t.dep > Now}

\* search_available_tickets(from_station, to_station, departure_date,
\* ticket_type, max_price)
Search(c, f) ==
    /\ pc[c] = "idle"
    /\ nops < MaxOps
    /\ nops' = nops + 1
    /\ Return(c, [Result("search", "ok", 0, NoRef, 0, 0, 0)
                     EXCEPT !.found = SearchTickets(db, f), !.query = f])
    /\ UNCHANGED <<db, lock, work, faults, issued>>

\* ------------------------------------------------------------ the system
TicketIdInputs == 0..(Len(db.tickets) + 1)

\* the references in the ledger and one that is not
ReferenceInputs == {FormatReference(n) : n \in 1..(MaxBookingNum(db) + 1)}

Next ==
    \E c \in Conn :
        \/ \E email \in EmailInputs(c), tid \in TicketIdInputs, pm \in PaymentInputs :
               BookBegin(c, email, tid, pm)
        \/ BookMarkSold(c)
        \/ BookInsertBooking(c)
        \/ BookInsertTransaction(c)
        \/ BookInsertHistory(c)
        \/ BookCommit(c)
        \/ \E ref \in ReferenceInputs : RefundBegin(c, ref)
        \/ RefundCalculate(c)
        \/ RefundInsertTicket(c)
        \/ RefundInsertHistory(c)
        \/ RefundInsertTransaction(c)
        \/ RefundDelete(c)
        \/ RefundCommit(c)
        \/ StoreFailure(c)
        \/ \E ref \in ReferenceInputs : CalculateRefund(c, ref)
        \/ Search(c, NoFilters)

Spec == Init /\ [][Next]_vars

\* ------------------------------------------- refund calculation on its own
\* One booking, UKC001, of a chosen ticket class, departure, paid price and
\* status, under a chosen refund_rules table; one caller calculates refunds
\* and refunds.
ClassInputs == {"standard", "flexible", "first_class"}

MaxHours == 48      \* latest departure, in hours after the current time

\* hours until departure: past, the thresholds of the shipped rules and the
\* hours on either side of them
HourInputs == {h \in {-30, -1, 0, 1, 3, 4, 5, 23, 24, 25} : h <= MaxHours} \cup {MaxHours}

\* paid prices in pence
PriceInputs == {0, 2500, 6750, 12025}

\* refund_rules tables: the shipped one; the shipped one with the standard
\* and first_class 4 hour rules inactive and inactive 12 hour rules added;
\* one whose fees exceed the percentage share; one without standard rules
RuleTables ==
    { RefundRules,
      { [r EXCEPT !.active = ~(r.hours = 4)] : r \in RefundRules } \cup
          { [cls |-> "standard",    hours |-> 12, pct |-> 100, fee |-> 0, active |-> FALSE],
            [cls |-> "first_class", hours |-> 12, pct |-> 100, fee |-> 0, active |-> FALSE],
            [cls |-> "flexible",    hours |-> 3,  pct |-> 0,   fee |-> 0, active |-> FALSE] },
      { [cls |-> "standard",    hours |-> 1,  pct |-> 25,  fee |-> 2500,  active |-> TRUE],
        [cls |-> "standard",    hours |-> 24, pct |-> 100, fee |-> 12050, active |-> TRUE],
        [cls |-> "flexible",    hours |-> 0,  pct |-> 0,   fee |-> 0,     active |-> TRUE],
        [cls |-> "first_class", hours |-> -24, pct |-> 25, fee |-> 0,     active |-> TRUE] },
      { r \in RefundRules : r.cls # "standard" } }

RefundSeedDB(cls, h, paid, st, rules) ==
    LET t == [status |-> "sold", cls |-> cls, base |-> paid, price |-> paid,
              dep |-> Now + h, seat |-> 1,
              frm |-> "London Euston", dst |-> "Manchester Piccadilly"]
    IN  [tickets  |-> <<t>>,
         bookings |-> {[BookingRow(1, FormatReference(1), 1, 1, t) EXCEPT !.status = st]},
         txs      |-> <<PurchaseRow(1, 1, FormatReference(1), t, "credit_card")>>,
         hist     |-> <<[bid |-> 1, action |-> "booked", old |-> "none", new |-> "confirmed"]>>,
         seqB     |-> 1,
         rules    |-> rules]

RefundInit ==
    /\ \E cls \in ClassInputs, h \in HourInputs, paid \in PriceInputs,
          st \in {"confirmed", "used"}, rules \in RuleTables :
            db = RefundSeedDB(cls, h, paid, st, rules)
    /\ pc = [c \in Conn |-> "idle"]
    /\ lock = [c \in Conn |-> "none"]
    /\ work = [c \in Conn |-> EmptyDB]
    /\ loc = [c \in Conn |-> NoLoc]
    /\ res = [c \in Conn |-> NoResult]
    /\ nops = 0
    /\ faults = 0
    /\ issued = {}

RefundNext ==
    \/ \E ref \in ReferenceInputs : CalculateRefund("c1", ref)
    \/ \E ref \in ReferenceInputs : RefundBegin("c1", ref)
    \/ RefundCalculate("c1")
    \/ RefundInsertTicket("c1")
    \/ RefundInsertHistory("c1")
    \/ RefundInsertTransaction("c1")
    \/ RefundDelete("c1")
    \/ RefundCommit("c1")
    \/ StoreFailure("c1")

RefundSpec == RefundInit /\ [][RefundNext]_vars

\* ------------------------------------------------- failing store queries
\* execute_query catches sqlite3.Error and returns None; cursor.execute inside
\* book_ticket and refund_ticket raises into their except clause.  One caller
\* runs every operation against a store whose queries may fail.

\* a query of the call that c starts in this step fails
QueryFails(c) ==
    /\ pc[c] = "idle"
    /\ nops < MaxOps
    /\ nops' = nops + 1
    /\ faults < MaxFaults
    /\ faults' = faults + 1
    /\ UNCHANGED <<db, lock, work, issued>>

\* book_ticket when find_customer_by_email gets None from execute_query:
\* 'if not customer' rolls back and returns 'Customer not found'
BookCustomerQueryFails(c, email, tid, pm) ==
    /\ QueryFails(c)
    /\ Return(c, Result("book", "CustomerNotFound", tid, NoRef, 0, 0, 0))

\* book_ticket when its SELECT of the available ticket raises: the except
\* clause rolls back and returns 'Booking failed'
BookSelectFails(c, email, tid, pm) ==
    /\ QueryFails(c)
    /\ find_customer_by_email(email) # 0
    /\ tid > 0
    /\ Return(c, Result("book", "StorageError", tid, NoRef, 0, 0, 0))

\* search_available_tickets when execute_query returns None: 'results or []'
SearchQueryFails(c, f) ==
    /\ QueryFails(c)
    /\ Return(c, [Result("search", "ok", 0, NoRef, 0, 0, 0) EXCEPT !.query = f])

\* calculate_refund_amount when the booking query returns None ('Booking not
\* found'), or when the rule query of a refundable booking does ('No refund
\* rules found')
CalculateQueryFails(c, ref, q) ==
    /\ QueryFails(c)
    /\ LET calc == CalculateRefundAmount(db, ref)
           kind == IF q = "booking" THEN "BookingNotFound"
                   ELSE IF calc.kind = "ok" THEN "NoApplicableRule" ELSE calc.kind
       IN  Return(c, Result("calculate", kind, 0, ref, 0, 0, 0))

\* refund_ticket when get_booked_ticket_details gets None from execute_query:
\* 'if not booked_ticket' returns 'Booking not found'
RefundQueryFails(c, ref) ==
    /\ QueryFails(c)
    /\ Return(c, Result("refund", "BookingNotFound", 0, ref, 0, 0, 0))

FaultNext ==
    \/ \E email \in EmailInputs("c1"), tid \in TicketIdInputs, pm \in PaymentInputs :
           BookBegin("c1", email, tid, pm)
    \/ \E email \in EmailInputs("c1"), tid \in TicketIdInputs, pm \in PaymentInputs :
           BookCustomerQueryFails("c1", email, tid, pm)
    \/ \E email \in EmailInputs("c1"), tid \in TicketIdInputs, pm \in PaymentInputs :
           BookSelectFails("c1", email, tid, pm)
    \/ BookMarkSold("c1")
    \/ BookInsertBooking("c1")
    \/ BookInsertTransaction("c1")
    \/ BookInsertHistory("c1")
    \/ BookCommit("c1")
    \/ \E ref \in ReferenceInputs : RefundBegin("c1", ref)
    \/ \E ref \in ReferenceInputs : RefundQueryFails("c1", ref)
    \/ \E ref \in ReferenceInputs : CalculateRefund("c1", ref)
    \/ \E ref \in ReferenceInputs, q \in {"booking", "rules"} :
           CalculateQueryFails("c1", ref, q)
    \/ RefundCalculate("c1")
    \/ RefundInsertTicket("c1")
    \/ RefundInsertHistory("c1")
    \/ RefundInsertTransaction("c1")
    \/ RefundDelete("c1")
    \/ RefundCommit("c1")
    \/ StoreFailure("c1")
    \/ Search("c1", NoFilters)
    \/ SearchQueryFails("c1", NoFilters)

FaultSpec == Init /\ [][FaultNext]_vars

\* --------------------------------------------------- search with filters
\* One caller books and refunds while another searches with filters.
FilterInputs ==
    { NoFilters,
      [NoFilters EXCEPT !.from = "london"],
      [NoFilters EXCEPT !.from = "atlantis"],
      [NoFilters EXCEPT !.to = "london euston"],
      [NoFilters EXCEPT !.from = "manchester", !.to = "atlantis"],
      [NoFilters EXCEPT !.date = [set |-> TRUE, v |-> 1]],
      [NoFilters EXCEPT !.cls = "flexible"],
      [NoFilters EXCEPT !.price = [set |-> TRUE, v |-> 7000]],
      [NoFilters EXCEPT !.price = [set |-> TRUE, v |-> 0]],
      [from |-> "london", to |-> "manchester", date |-> [set |-> TRUE, v |-> 0],
       cls |-> "standard", price |-> [set |-> TRUE, v |-> 6750]] }

SearchInit ==
    /\ db = SeedDB("confirmed")
    /\ pc = [c \in Conn |-> "idle"]
    /\ lock = [c \in Conn |-> "none"]
    /\ work = [c \in Conn |-> EmptyDB]
    /\ loc = [c \in Conn |-> NoLoc]
    /\ res = [c \in Conn |-> NoResult]
    /\ nops = 0
    /\ faults = 0
    /\ issued = {}

SearchNext ==
    \/ \E email \in EmailInputs("c1"), tid \in TicketIdInputs, pm \in PaymentInputs :
           BookBegin("c1", email, tid, pm)
    \/ BookMarkSold("c1")
    \/ BookInsertBooking("c1")
    \/ BookInsertTransaction("c1")
    \/ BookInsertHistory("c1")
    \/ BookCommit("c1")
    \/ \E ref \in ReferenceInputs : RefundBegin("c1", ref)
    \/ RefundCalculate("c1")
    \/ RefundInsertTicket("c1")
    \/ RefundInsertHistory("c1")
    \/ RefundInsertTransaction("c1")
    \/ RefundDelete("c1")
    \/ RefundCommit("c1")
    \/ \E f \in FilterInputs : Search("c2", f)

SearchSpec == SearchInit /\ [][SearchNext]_vars

\* --------------------------------------------------- a ledger near UKC999
\* The reference numbers of the bookings in the ledger when the calls start:
\* the populated ledger, a ledger whose highest reference is UKC999, the same
\* ledger after eleven more bookings (UKC1000 .. UKC1009 hold the ten
\* candidates above 999), and a ledger in which only UKC1000 is left after
\* the refund of every other booking.
LedgerInputs ==
    {<<1>>, <<999>>, <<1000>>, [i \in 1..(MaxAttempts + 1) |-> 998 + i]}

\* booking i of the ledger was sold from ticket i to customer 1; NTickets
\* more tickets are available
LedgerDB(nums) ==
    LET n == Len(nums)
    IN  [tickets  |-> [i \in 1..(n + NTickets) |->
                         IF i <= n THEN [TicketFixture(i) EXCEPT !.status = "sold"]
                         ELSE TicketFixture(i)],
         bookings |-> {BookingRow(i, FormatReference(nums[i]), 1, i, TicketFixture(i)) :
                         i \in 1..n},
         txs      |-> [i \in 1..n |->
                         PurchaseRow(1, i, FormatReference(nums[i]), TicketFixture(i),
                                     "credit_card")],
         hist     |-> [i \in 1..n |->
                         [bid |-> i, action |-> "booked", old |-> "none",
                          new |-> "confirmed"]],
         seqB     |-> n,
         rules    |-> RefundRules]

RefInit ==
    /\ \E nums \in LedgerInputs : db = LedgerDB(nums)
    /\ pc = [c \in Conn |-> "idle"]
    /\ lock = [c \in Conn |-> "none"]
    /\ work = [c \in Conn |-> EmptyDB]
    /\ loc = [c \in Conn |-> NoLoc]
    /\ res = [c \in Conn |-> NoResult]
    /\ nops = 0
    /\ faults = 0
    /\ issued = {}

\* the ids of the tickets that were not sold when the calls started
UnsoldTicketIds == {tid \in DOMAIN db.tickets : tid > Len(db.tickets) - NTickets}

RefNext ==
    \E c \in Conn :
        \/ \E tid \in UnsoldTicketIds : BookBegin(c, "a@x.uk", tid, "credit_card")
        \/ BookMarkSold(c)
        \/ BookInsertBooking(c)
        \/ BookInsertTransaction(c)
        \/ BookInsertHistory(c)
        \/ BookCommit(c)

RefSpec == RefInit /\ [][RefNext]_vars

\* ======================================================================
\* Properties
\* ======================================================================

\* the call of c returns in this step
Returns(c) ==
    /\ pc'[c] = "idle"
    /\ \/ pc[c] # "idle"
       \/ nops' = nops + 1 /\ res'[c] # res[c]

BookReturnsError(c) ==
    Returns(c) /\ res'[c].op = "book" /\ res'[c].kind # "success"

BookSucceeds(c) ==
    pc[c] = "b_commit" /\ pc'[c] = "idle" /\ res'[c].kind = "success"

RefundReturnsError(c) ==
    Returns(c) /\ res'[c].op = "refund" /\ res'[c].kind # "success"

RefundSucceeds(c) ==
    pc[c] = "r_commit" /\ pc'[c] = "idle" /\ res'[c].kind = "success"

\* C1: no double-booking.  When two book calls on separate connections were
\* in progress at the same time on one available ticket id, without any store
\* failure, and one of them returned success, the other returned
\* TicketAlreadySold, and exactly one Booking row references the id.
C1_NoDoubleBooking ==
    faults = 0 =>
        \A c1 \in Conn : \A c2 \in Conn \ {c1} :
            ( /\ pc[c1] = "idle" /\ pc[c2] = "idle"
              /\ res[c1].op = "book" /\ res[c2].op = "book"
              /\ res[c1].raced /\ res[c2].raced
              /\ res[c1].tid = res[c2].tid
              /\ res[c1].kind = "success" )
            => /\ res[c2].kind = "TicketAlreadySold"
               /\ Cardinality({b \in db.bookings : b.src = res[c1].tid}) = 1

\* C2: reference uniqueness over the lifetime.  The reference a successful
\* book returns was never returned by an earlier successful book, whether or
\* not that booking has been deleted by a refund since.
C2_ReferenceNeverReused ==
    [][\A c \in Conn : BookSucceeds(c) => res'[c].ref \notin issued]_vars

\* C3: book is all-or-nothing.  A step in which a book call returns an error
\* leaves the committed tables as they were and the caller's transaction
\* closed with nothing pending; the ticket the call had marked sold is
\* available in the committed store; and the committed tables change only in
\* the step in which a book or refund call returns success.
C3_BookAllOrNothing ==
    [][ /\ \A c \in Conn :
              BookReturnsError(c) =>
                  /\ db' = db
                  /\ lock'[c] = "none"
                  /\ work'[c] = EmptyDB
                  /\ (lock[c] = "reserved" => IsAvailable(db', loc[c].tid))
        /\ (db' # db => \E c \in Conn : BookSucceeds(c) \/ RefundSucceeds(c))
      ]_vars

\* a book call failed on the Transaction insert (payment method rejected by
\* the CHECK constraint) after it had marked the ticket sold and inserted the
\* Booking row, and the ticket is available in the committed store
C3_Witness ==
    \E c \in Conn :
        /\ pc[c] = "idle"
        /\ res[c].op = "book"
        /\ res[c].kind = "StorageError"
        /\ res[c].at = "b_insert_tx"
        /\ IsAvailable(db, res[c].tid)
        /\ \A b \in db.bookings : b.src # res[c].tid

\* the committed store e is d with one whole booking applied: one available
\* ticket sold, its Booking row, its purchase Transaction and its 'booked'
\* HistoryEntry added
FullBook(d, e) ==
    \E tid \in DOMAIN d.tickets :
        /\ IsAvailable(d, tid)
        /\ e.tickets = [d.tickets EXCEPT ![tid].status = "sold"]
        /\ \E b \in e.bookings \ d.bookings :
              /\ e.bookings = d.bookings \cup {b}
              /\ b.src = tid
              /\ Len(e.txs) = Len(d.txs) + 1
              /\ SubSeq(e.txs, 1, Len(d.txs)) = d.txs
              /\ e.txs[Len(e.txs)].type = "purchase"
              /\ e.txs[Len(e.txs)].bid = b.id
              /\ Len(e.hist) = Len(d.hist) + 1
              /\ SubSeq(e.hist, 1, Len(d.hist)) = d.hist
              /\ e.hist[Len(e.hist)].action = "booked"
              /\ e.hist[Len(e.hist)].bid = b.id

\* the committed store e is d with one whole refund applied: the reissued
\* available ticket, the 'refunded' HistoryEntry and the refund Transaction
\* added and no Booking row left under the refunded reference
FullRefund(d, e) ==
    /\ Len(e.tickets) = Len(d.tickets) + 1
    /\ SubSeq(e.tickets, 1, Len(d.tickets)) = d.tickets
    /\ e.tickets[Len(e.tickets)].status = "available"
    /\ Len(e.hist) = Len(d.hist) + 1
    /\ SubSeq(e.hist, 1, Len(d.hist)) = d.hist
    /\ e.hist[Len(e.hist)].action = "refunded"
    /\ Len(e.txs) = Len(d.txs) + 1
    /\ SubSeq(e.txs, 1, Len(d.txs)) = d.txs
    /\ e.txs[Len(e.txs)].type = "refund"
    /\ e.txs[Len(e.txs)].bid = e.hist[Len(e.hist)].bid
    /\ e.bookings = {b \in d.bookings : b.ref # e.txs[Len(e.txs)].ref}

\* C4: partial application of book or refund is never observable.  Every
\* change of the committed store, which is all that a reader on another
\* connection sees, is one whole book or one whole refund.
C4_NoPartialApplication ==
    [][db' # db => FullBook(db, db') \/ FullRefund(db, db')]_vars

\* a refund has written the reissued ticket, the history row and the refund
\* transaction inside its transaction while the committed store a reader sees
\* still holds the booking and none of the three rows
C4_Witness ==
    \E c \in Conn :
        /\ pc[c] = "r_delete"
        /\ Len(work[c].tickets) = Len(db.tickets) + 1
        /\ Len(work[c].hist) = Len(db.hist) + 1
        /\ Len(work[c].txs) = Len(db.txs) + 1
        /\ \E b \in db.bookings : b.ref = loc[c].ref
        /\ \E o \in Conn \ {c} : pc[o] = "idle" /\ res[o].op = "search"

\* C5: refund reissue round trip.  When the refund of a booking that book
\* made from ticket X returns success, the store holds a new AvailableTicket
\* row Y whose id was not in use before and differs from X's, that is
\* available, priced (base and current) at the booking's paid price, which is
\* X's current price, and carries X's trip fields; and no Booking row is left
\* under the reference.
C5_RefundReissueRoundTrip ==
    [][\A c \in Conn :
          RefundSucceeds(c) =>
              LET b == loc[c].bk
                  x == db.tickets[b.src]
                  y == res'[c].y
              IN  /\ y \notin DOMAIN db.tickets
                  /\ y \in DOMAIN db'.tickets
                  /\ y # b.src
                  /\ db'.tickets[y].status = "available"
                  /\ db'.tickets[y].base = b.paid
                  /\ db'.tickets[y].price = b.paid
                  /\ b.paid = x.price
                  /\ db'.tickets[y].cls = x.cls
                  /\ db'.tickets[y].dep = x.dep
                  /\ db'.tickets[y].seat = x.seat
                  /\ x.status = "sold"
                  /\ db'.tickets[b.src] = x
                  /\ CalculateRefundAmount(db', res'[c].ref).kind = "BookingNotFound"
      ]_vars

\* ticket 2 (base price 80.00, current price 89.00) was booked and the
\* booking refunded: the reissued row is available at 89.00 and the
\* reference is gone from the ledger
C5_Witness ==
    \E c \in Conn :
        /\ pc[c] = "idle"
        /\ res[c].op = "refund"
        /\ res[c].kind = "success"
        /\ res[c].bid > 1
        /\ res[c].y \in DOMAIN db.tickets
        /\ db.tickets[res[c].y].status = "available"
        /\ db.tickets[res[c].y].price = 8900
        /\ db.tickets[2].status = "sold"
        /\ ~ReferenceExists(db, res[c].ref)

\* C6: sold is terminal.  A committed AvailableTicket row is never deleted; a
\* row that is sold stays exactly as it is in every step, refund included; and
\* a row goes from available to sold only in the step in which a book call on
\* its id returns success.
C6_SoldIsTerminal ==
    [][\A i \in DOMAIN db.tickets :
          /\ i \in DOMAIN db'.tickets
          /\ (db.tickets[i].status = "sold" => db'.tickets[i] = db.tickets[i])
          /\ (db.tickets[i].status = "available" /\ db'.tickets[i].status # "available"
                => /\ db'.tickets[i].status = "sold"
                   /\ \E c \in Conn : BookSucceeds(c) /\ res'[c].tid = i)
      ]_vars

\* a booking made from a ticket has been refunded, and the ticket's original
\* row is still sold next to the reissued, available row
C6_Witness ==
    \E c \in Conn :
        /\ pc[c] = "idle"
        /\ res[c].op = "refund"
        /\ res[c].kind = "success"
        /\ \E i \in DOMAIN db.tickets :
              /\ i # res[c].y
              /\ db.tickets[i].status = "sold"
              /\ db.tickets[i].seat = db.tickets[res[c].y].seat
              /\ db.tickets[res[c].y].status = "available"

C8_BookPostState ==
    [][\A c \in Conn :
          BookSucceeds(c) =>
              LET t == db.tickets[loc[c].tid]
                  added == db'.bookings \ db.bookings
                  tx == db'.txs[Len(db'.txs)]
              IN  /\ Cardinality(added) = 1
                  /\ db.bookings \subseteq db'.bookings
                  /\ \A b \in added :
                        /\ b.cust = find_customer_by_email(loc[c].email)
                        /\ b.cust # 0
                        /\ b.src = loc[c].tid
                        /\ res'[c].tid = b.src
                        /\ b.cls = t.cls /\ b.dep = t.dep /\ b.seat = t.seat
                        /\ b.orig = t.base
                        /\ b.paid = t.price
                        /\ b.status = "confirmed"
                        /\ b.travel = "upcoming"
                        /\ b.points >= 1
                        /\ (t.price >= 1000 =>
                              b.points * 1000 <= t.price /\ t.price < (b.points + 1) * 1000)
                        /\ (t.price < 1000 => b.points = 1)
                        /\ b.ref = res'[c].ref /\ b.id = res'[c].bid
                        /\ tx.bid = b.id /\ tx.ref = b.ref /\ tx.cust = b.cust
                  /\ Len(db'.txs) = Len(db.txs) + 1
                  /\ SubSeq(db'.txs, 1, Len(db.txs)) = db.txs
                  /\ tx.type = "purchase"
                  /\ tx.amount = t.price
                  /\ tx.status = "completed"
      ]_vars

\* ticket 2 (base 80.00, current 89.00) and ticket 3 (current 7.50, below ten
\* pounds) have both been booked: the bookings paid 89.00 for 8 points and
\* 7.50 for 1 point
C8_Witness ==
    /\ \E c \in Conn : pc[c] = "idle" /\ res[c].op = "book" /\ res[c].kind = "success"
    /\ \E b \in db.bookings : b.src = 2 /\ b.paid = 8900 /\ b.orig = 8000 /\ b.points = 8
    /\ \E b \in db.bookings : b.src = 3 /\ b.paid = 750 /\ b.points = 1

\* connection c, idle, calls book on ticket id tid in this step with the
\* email of an existing customer
BookCalled(c, tid) ==
    /\ pc[c] = "idle"
    /\ nops' = nops + 1
    /\ \/ /\ pc'[c] = "idle"
          /\ res'[c] # res[c]
          /\ res'[c].op = "book"
          /\ res'[c].tid = tid
          /\ res'[c].kind # "CustomerNotFound"
       \/ /\ pc'[c] = "b_update"
          /\ loc'[c].tid = tid

\* C9 as stated: after a book call on id X has returned success, a later
\* book call on X (same or another existing customer) fails with
\* TicketAlreadySold, the Conflict kind, and changes no state.
C9_RebookIsConflict ==
    [][\A c \in Conn : \A tid \in DOMAIN db.tickets :
          ( /\ BookCalled(c, tid)
            /\ db.tickets[tid].status = "sold"
            /\ \E o \in Conn : /\ pc[o] = "idle" /\ res[o].op = "book"
                                /\ res[o].kind = "success" /\ res[o].tid = tid )
              => /\ pc'[c] = "idle"
                 /\ res'[c].kind = "TicketAlreadySold"
                 /\ db' = db
      ]_vars

\* C9 amended: a book call on an id that a committed book has sold fails in
\* its first step with the 'Ticket not available or already booked' error, the
\* same error a call gets for an id that never existed, and changes no state.
C9_RebookIsNotAvailable ==
    [][\A c \in Conn : \A tid \in 1..(Len(db.tickets) + 1) :
          (BookCalled(c, tid) /\ (tid \in DOMAIN db.tickets => db.tickets[tid].status = "sold"))
              => /\ pc'[c] = "idle"
                 /\ res'[c].kind = "TicketNotAvailable"
                 /\ res'[c].at = "idle"
                 /\ db' = db /\ work' = work /\ lock' = lock
      ]_vars

\* ticket 2 was booked by one connection's caller, and a later book call on
\* ticket 2 by the other customer was turned away, as was a call on an id
\* that is not in the inventory
C9_Witness ==
    \E c \in Conn : \E o \in Conn \ {c} :
        /\ pc[c] = "idle" /\ pc[o] = "idle"
        /\ res[c].op = "book" /\ res[c].kind = "success" /\ res[c].tid = 2
        /\ res[o].op = "book" /\ res[o].kind = "TicketNotAvailable" /\ res[o].tid = 2
        /\ ~res[o].raced
        /\ db.tickets[2].status = "sold"

\* C10: a refund call that returns an error leaves the committed tables as
\* they were: no reissued ticket, no history row, no refund transaction, and
\* a booking that was in the ledger is still there; the caller's transaction
\* is closed with nothing pending.
C10_RefundErrorChangesNothing ==
    [][\A c \in Conn :
          RefundReturnsError(c) =>
              /\ db' = db
              /\ db'.tickets = db.tickets /\ db'.hist = db.hist
              /\ db'.txs = db.txs /\ db'.bookings = db.bookings
              /\ lock'[c] = "none"
              /\ work'[c] = EmptyDB
      ]_vars

\* a refund failed on a store error after it had inserted the reissued
\* ticket, the history row and the refund transaction, and the booking is
\* still in the ledger and the inventory has no extra row
C10_Witness ==
    \E c \in Conn :
        /\ pc[c] = "idle"
        /\ res[c].op = "refund"
        /\ res[c].kind = "StorageError"
        /\ res[c].at = "r_delete"
        /\ ReferenceExists(db, res[c].ref)
        /\ Len(db.tickets) = NTickets + 1
        /\ Len(db.txs) = 1

\* number of Transaction rows of one type that carry booking id bid
TxCount(d, bid, type) ==
    Cardinality({i \in DOMAIN d.txs : d.txs[i].bid = bid /\ d.txs[i].type = type})

\* C11: transaction count per booking.  In every state of the committed
\* store, every booking id created by book has exactly one purchase
\* Transaction and at most one refund Transaction, and has exactly one refund
\* Transaction if and only if its Booking row has been deleted by refund.
C11_TransactionCountPerBooking ==
    \A bid \in 2..db.seqB :
        /\ TxCount(db, bid, "purchase") = 1
        /\ TxCount(db, bid, "refund") <= 1
        /\ (TxCount(db, bid, "refund") = 1 <=> ~\E b \in db.bookings : b.id = bid)

\* C12: the Transaction Log and the History Log are append-only.  In every
\* step the committed transaction_info and booking_history rows of before
\* are all still there, unchanged and in place, so neither log gets shorter;
\* in particular after a successful refund the purchase and refund
\* Transactions and the 'booked' and 'refunded' HistoryEntry rows of the
\* deleted booking are in the logs.
C12_LogsAppendOnly ==
    [][ /\ Len(db'.txs) >= Len(db.txs)
        /\ SubSeq(db'.txs, 1, Len(db.txs)) = db.txs
        /\ Len(db'.hist) >= Len(db.hist)
        /\ SubSeq(db'.hist, 1, Len(db.hist)) = db.hist
        /\ \A c \in Conn :
              RefundSucceeds(c) =>
                  LET bid == loc[c].bk.id
                  IN  /\ ~\E b \in db'.bookings : b.id = bid
                      /\ TxCount(db', bid, "purchase") >= 1
                      /\ TxCount(db', bid, "refund") >= 1
                      /\ \E i \in DOMAIN db'.hist :
                            db'.hist[i].bid = bid /\ db'.hist[i].action = "booked"
                      /\ \E i \in DOMAIN db'.hist :
                            db'.hist[i].bid = bid /\ db'.hist[i].action = "refunded"
      ]_vars

\* a booking made by book has been refunded: its row is gone from the ledger
\* and its purchase, its refund and both its history rows are in the logs
C12_Witness ==
    \E c \in Conn :
        /\ pc[c] = "idle"
        /\ res[c].op = "refund"
        /\ res[c].kind = "success"
        /\ res[c].bid > 1
        /\ ~\E b \in db.bookings : b.id = res[c].bid
        /\ TxCount(db, res[c].bid, "purchase") = 1
        /\ TxCount(db, res[c].bid, "refund") = 1
        /\ Len(db.hist) = 3

\* calculate_refund_amount(ref) is called by c and returns in this step
CalculateReturns(c) ==
    /\ pc[c] = "idle"
    /\ pc'[c] = "idle"
    /\ nops' = nops + 1
    /\ res'[c] # res[c]
    /\ res'[c].op = "calculate"

\* the booking with reference ref in store d
BookingOf(d, ref) == CHOOSE b \in d.bookings : b.ref = ref

Refundable(b) == b.status \notin {"used", "cancelled", "refunded"}

\* C13: refund rule selection.  When calculateRefundAmount is called for a
\* refundable booking, the candidates are the active rules of the booking's
\* ticket class whose threshold is <= the hours until departure; with no
\* candidate the result is the NoApplicableRule error, and otherwise the
\* percentage and fee returned are those of a candidate with the largest
\* threshold.
C13_RuleSelection ==
    [][\A c \in Conn :
          (CalculateReturns(c) /\ ReferenceExists(db, res'[c].ref)
                               /\ Refundable(BookingOf(db, res'[c].ref))) =>
              LET b == BookingOf(db, res'[c].ref)
                  h == b.dep - Now
                  cand == {r \in db.rules : r.cls = b.cls /\ r.active /\ r.hours <= h}
              IN  IF cand = {}
                  THEN res'[c].kind = "NoApplicableRule"
                  ELSE /\ res'[c].kind = "ok"
                       /\ \E r \in cand :
                             /\ \A q \in cand : q.hours <= r.hours
                             /\ res'[c].pct = r.pct
                             /\ res'[c].fee = r.fee
      ]_vars

\* a standard booking departing in 5 hours under a table whose 4 hour rule is
\* inactive: the 0 hour rule (50%, fee 50.00) was used
C13_Witness ==
    \E c \in Conn :
        /\ pc[c] = "idle"
        /\ res[c].op = "calculate"
        /\ res[c].kind = "ok"
        /\ res[c].pct = 50 /\ res[c].fee = 5000
        /\ \E r \in db.rules : r.cls = "standard" /\ r.hours = 4 /\ ~r.active
        /\ \E b \in db.bookings :
              b.ref = res[c].ref /\ b.cls = "standard" /\ b.dep = Now + 5

C15_RoundsHalfUp ==
    [][\A c \in Conn :
          (CalculateReturns(c) /\ res'[c].kind = "ok") =>
              LET b == BookingOf(db, res'[c].ref)
                  raw == MaxOf(0, b.paid * res'[c].pct - res'[c].fee * 100)
              IN  res'[c].amount = (raw + 50) \div 100
      ]_vars

\* C16: non-negative refunds.  The amount calculateRefundAmount returns and
\* the amount of the refund Transaction that refund writes are >= 0 and <=
\* the paid price; where the fee exceeds the percentage share the amount is 0.
C16_RefundWithinPaidPrice ==
    [][\A c \in Conn :
          /\ (CalculateReturns(c) /\ res'[c].kind = "ok") =>
                LET b == BookingOf(db, res'[c].ref)
                IN  /\ res'[c].amount >= 0
                    /\ res'[c].amount <= b.paid
                    /\ (b.paid * res'[c].pct <= res'[c].fee * 100 => res'[c].amount = 0)
          /\ RefundSucceeds(c) =>
                LET tx == db'.txs[Len(db'.txs)]
                IN  /\ tx.type = "refund"
                    /\ tx.amount = res'[c].amount
                    /\ tx.amount >= 0
                    /\ tx.amount <= loc[c].bk.paid
      ]_vars

\* a booking paid 67.50 was refunded under a 25% rule with fee 25.00: the
\* share, 16.875, is below the fee and the refund Transaction is of 0
C16_Witness ==
    \E c \in Conn :
        /\ pc[c] = "idle"
        /\ res[c].op = "refund"
        /\ res[c].kind = "success"
        /\ res[c].pct = 25
        /\ res[c].amount = 0
        /\ db.tickets[1].price = 6750
        /\ db.txs[Len(db.txs)].type = "refund"
        /\ db.txs[Len(db.txs)].amount = 0

\* the percentage the rule lookup gives for class cls at h hours
PercentageAt(rules, cls, h) == SelectRule(rules, cls, h).pct

\* C17: refund monotonicity on the shipped rule table.  For each ticket
\* class and hours h1 <= h2 that both have an applicable rule, the percentage
\* at h1 is <= the percentage at h2; calculateRefundAmount returns 100 for
\* h >= 24, 75 for 4 <= h < 24 and 50 for 0 <= h < 4 for standard and
\* first_class, and 100 with fee 0, the whole paid price, for flexible at
\* every h >= 0.
C17_RefundMonotonic ==
    [][ db.rules = RefundRules =>
          /\ \A cls \in ClassInputs : \A h1 \in HourInputs : \A h2 \in HourInputs :
                ( /\ h1 <= h2
                  /\ ApplicableRules(db.rules, cls, h1) # {}
                  /\ ApplicableRules(db.rules, cls, h2) # {} )
                    => PercentageAt(db.rules, cls, h1) <= PercentageAt(db.rules, cls, h2)
          /\ \A c \in Conn :
                (CalculateReturns(c) /\ res'[c].kind = "ok") =>
                    LET b == BookingOf(db, res'[c].ref)
                        h == b.dep - Now
                    IN  /\ h >= 0
                        /\ b.cls \in {"standard", "first_class"} =>
                              res'[c].pct = IF h >= 24 THEN 100
                                            ELSE IF h >= 4 THEN 75 ELSE 50
                        /\ b.cls = "flexible" =>
                              /\ res'[c].pct = 100
                              /\ res'[c].fee = 0
                              /\ res'[c].amount = b.paid
      ]_vars

\* under the shipped table a first_class booking departing in 23 hours got
\* 75%
C17_Witness ==
    \E c \in Conn :
        /\ pc[c] = "idle"
        /\ res[c].op = "calculate"
        /\ res[c].kind = "ok"
        /\ res[c].pct = 75
        /\ db.rules = RefundRules
        /\ \E b \in db.bookings :
              b.ref = res[c].ref /\ b.cls = "first_class" /\ b.dep = Now + 23

\* C18: calculateRefundAmount performs no mutation.  The step in which it
\* returns leaves the committed tables, every open transaction and every lock
\* as they were; for a reference that is not in the ledger it returns
\* BookingNotFound, and for a booking whose status is used, cancelled or
\* refunded it returns NotRefundable.
C18_CalculateIsPure ==
    [][\A c \in Conn :
          CalculateReturns(c) =>
              /\ db' = db
              /\ work' = work
              /\ lock' = lock
              /\ (~ReferenceExists(db, res'[c].ref) => res'[c].kind = "BookingNotFound")
              /\ (ReferenceExists(db, res'[c].ref)
                    /\ ~Refundable(BookingOf(db, res'[c].ref))
                        => res'[c].kind = "NotRefundable")
      ]_vars

\* calculateRefundAmount returned NotRefundable for the used booking while
\* the other connection was in the middle of a book call
C18_Witness ==
    \E c \in Conn : \E o \in Conn \ {c} :
        /\ pc[c] = "idle"
        /\ res[c].op = "calculate"
        /\ res[c].kind = "NotRefundable"
        /\ \E b \in db.bookings : b.ref = res[c].ref /\ b.status = "used"
        /\ pc[o] = "b_insert_tx"

\* search_available_tickets is called by c and returns in this step
SearchReturns(c) ==
    /\ pc[c] = "idle"
    /\ pc'[c] = "idle"
    /\ nops' = nops + 1
    /\ res'[c] # res[c]
    /\ res'[c].op = "search"

\* ticket t matches every filter of f that was supplied
MatchesFilters(t, f) ==
    /\ (f.from # "" => t.frm \in Resolve(f.from))
    /\ (f.to # "" => t.dst \in Resolve(f.to))
    /\ (f.date.set => Date(t.dep) >= f.date.v)
    /\ (f.cls # "" => t.cls = f.cls)
    /\ (f.price.set => t.price <= f.price.v)

\* C19: search never offers unsellable inventory.  Every ticket a search
\* returns is available in the committed store, departs strictly after the
\* current time and satisfies every supplied filter (from and to station in
\* the resolved station sets, departure date >= the minimum date, ticket
\* class equal, current price <= the maximum price); a ticket that is sold is
\* not returned; and an available ticket, reissued ones included, that
\* departs in the future and matches is returned.
C19_SearchOffersOnlyMatching ==
    [][\A c \in Conn :
          SearchReturns(c) =>
              /\ \A i \in res'[c].found :
                    /\ i \in DOMAIN db.tickets
                    /\ db.tickets[i].status = "available"
                    /\ db.tickets[i].dep > Now
                    /\ MatchesFilters(db.tickets[i], res'[c].query)
              /\ \A i \in DOMAIN db.tickets :
                    ( /\ db.tickets[i].status = "available"
                      /\ db.tickets[i].dep > Now
                      /\ MatchesFilters(db.tickets[i], res'[c].query) )
                        => i \in res'[c].found
      ]_vars

\* C20: unknown location in search.  When a supplied from or to text
\* resolves to the empty station list, search returns no ticket.
C20_UnknownLocationFindsNothing ==
    [][\A c \in Conn :
          ( /\ SearchReturns(c)
            /\ \/ res'[c].query.from # "" /\ Resolve(res'[c].query.from) = {}
               \/ res'[c].query.to # "" /\ Resolve(res'[c].query.to) = {} )
              => res'[c].found = {}
      ]_vars

\* C21: visibility of a new booking.  After a successful book(email, id, ...)
\* and for as long as the booking is in the ledger, the active tickets and
\* the bookings of the customer with that email both include the booking's
\* reference, whatever the ticket's departure time.
C21_NewBookingVisible ==
    \A c \in Conn : \A b \in db.bookings : \A email \in CustomerEmails :
        ( /\ pc[c] = "idle"
          /\ res[c].op = "book"
          /\ res[c].kind = "success"
          /\ b.id = res[c].bid
          /\ b.cust = find_customer_by_email(email) )
            => /\ b.ref \in get_customer_bookings(db, email)
               /\ b.ref \in find_active_customer_tickets(db, email)

\* C22: store failures are surfaced as StorageError.  In every step in which
\* a store call of an operation fails, the operation returns the StorageError
\* kind, the committed tables are unchanged and the caller's transaction is
\* closed; the failure is not returned as an empty search result, as
\* CustomerNotFound or as BookingNotFound.
C22_StoreFailureIsStorageError ==
    [][faults' = faults + 1 =>
          \E c \in Conn :
              /\ (pc[c] # "idle" \/ nops' = nops + 1)
              /\ pc'[c] = "idle"
              /\ res'[c].kind = "StorageError"
              /\ db' = db
              /\ lock'[c] = "none"
              /\ work'[c] = EmptyDB
      ]_vars

\* C23: reference format.  Every bookingReference returned by a successful
\* book, in any state of the ledger, is UKC followed by exactly three decimal
\* digits, and its number is strictly greater than the number of every
\* reference in the ledger at that moment.
C23_ReferenceFormat ==
    [][\A c \in Conn :
          BookSucceeds(c) =>
              /\ Len(res'[c].ref) = 3
              /\ \A b \in db.bookings : RefNumber(res'[c].ref) > RefNumber(b.ref)
      ]_vars

\* C26: bounded reference allocation.  When every one of the MaxAttempts
\* candidate references (max existing suffix + 1 + attempt) is already in the
\* ledger, book fails with ReferenceGenerationFailed, no Booking row is
\* inserted and the ticket is available again.
C26_ReferenceGenerationFailed ==
    [][\A c \in Conn :
          ( /\ pc[c] = "b_insert_booking"
            /\ pc'[c] # pc[c]
            /\ \A attempt \in 0..(MaxAttempts - 1) :
                  ReferenceExists(work[c],
                      FormatReference(MaxBookingNum(work[c]) + 1 + attempt)) )
            => /\ pc'[c] = "idle"
               /\ res'[c].kind = "ReferenceGenerationFailed"
               /\ db'.bookings = db.bookings
               /\ IsAvailable(db', loc[c].tid)
      ]_vars

\* C24: concurrent refunds of one booking.  In every reachable state each
\* physical seat has exactly one row among the available tickets with status
\* available and the Booking rows, and the booking of a seat has at most one
\* refund Transaction and one 'refunded' HistoryEntry: of the refund calls
\* for one reference at most one takes effect.
C24_OneRowPerSeat ==
    /\ \A s \in {db.tickets[tid].seat : tid \in DOMAIN db.tickets} :
          Cardinality({tid \in DOMAIN db.tickets :
                          /\ db.tickets[tid].status = "available"
                          /\ db.tickets[tid].seat = s})
            + Cardinality({b \in db.bookings : b.seat = s}) = 1
    /\ \A bid \in 1..db.seqB :
          /\ Cardinality({i \in DOMAIN db.hist :
                             db.hist[i].bid = bid /\ db.hist[i].action = "refunded"}) <= 1
          /\ Cardinality({i \in DOMAIN db.txs :
                             db.txs[i].bid = bid /\ db.txs[i].type = "refund"}) <= 1

\* C25: refund write ordering.  Whenever a refund call inserts its 'refunded'
\* HistoryEntry or its refund Transaction, the Booking row the new row
\* references exists in the ledger as the writing transaction sees it; the
\* Booking row is deleted only after both inserts, in the same transaction.
C25_RefundWritesWhileBookingExists ==
    [][\A c \in Conn :
          /\ ( \/ pc[c] = "r_insert_hist" /\ Len(work'[c].hist) > Len(work[c].hist)
               \/ pc[c] = "r_insert_tx" /\ Len(work'[c].txs) > Len(work[c].txs) )
                => \E b \in work[c].bookings : b.id = loc[c].bk.id
          /\ ( pc[c] = "r_delete" /\ pc'[c] = "r_commit" )
                => /\ work[c].hist[Len(work[c].hist)].bid = loc[c].bk.id
                   /\ work[c].txs[Len(work[c].txs)].bid = loc[c].bk.id
                   /\ lock[c] = "reserved"
      ]_vars

\* C27: concurrent book calls on two different available ticket ids never
\* commit two Booking rows with the same bookingReference, a reference
\* returned by a successful call is not the reference of any other row of the
\* ledger, and a call that got as far as the UPDATE of its ticket and did not
\* succeed leaves its own ticket available.
C27_ConcurrentBooksDistinctReferences ==
    [][/\ \A b1 \in db'.bookings : \A b2 \in db'.bookings :
              b1.id # b2.id => b1.ref # b2.ref
       /\ \A c \in Conn :
              /\ BookSucceeds(c) =>
                     /\ ~ReferenceExists(db, res'[c].ref)
                     /\ Cardinality({b \in db'.bookings : b.ref = res'[c].ref}) = 1
              /\ (BookReturnsError(c) /\ pc[c] # "idle") =>
                     IsAvailable(db', res'[c].tid)
      ]_vars

\* one call has committed its booking while the call of the other connection,
\* on another ticket, was refused the write lock: that ticket is still
\* available and the ledger holds two rows with different references
C27_Witness ==
    \E c \in Conn : \E o \in Conn \ {c} :
        /\ pc[c] = "idle" /\ pc[o] = "idle"
        /\ res[c].op = "book" /\ res[c].kind = "success"
        /\ res[o].op = "book" /\ res[o].kind = "StorageError" /\ res[o].at = "b_update"
        /\ res[o].tid # res[c].tid
        /\ IsAvailable(db, res[o].tid)
        /\ \E b \in db.bookings : b.ref = res[c].ref /\ b.src = res[c].tid
        /\ Cardinality(db.bookings) = 2

\* C28: validation precedes storage.  A book call whose ticket id is not a
\* positive integer is rejected with the validation error (InvalidTicketId)
\* whatever its email argument, before the customer is looked up, and keeps
\* no lock on the store.
C28_ValidationPrecedesStorage ==
    [][\A c \in Conn :
          ( /\ pc[c] = "idle"
            /\ pc'[c] = "idle"
            /\ nops' = nops + 1
            /\ res'[c] # res[c]
            /\ res'[c].op = "book"
            /\ res'[c].tid <= 0 )
            => /\ res'[c].kind = "InvalidTicketId"
               /\ lock'[c] = "none"
      ]_vars

\* C29: payment method normalisation.  The payment method that book hands to
\* the INSERT of the purchase Transaction is a member of the closed enum of
\* the store for every label, so that the INSERT fails only when the store
\* itself fails, never because of the label.
C29_PaymentMethodInEnum ==
    [][\A c \in Conn :
          pc[c] = "b_insert_tx" =>
              /\ PaymentMethodCheck(loc[c].pm)
              /\ (pc'[c] = "idle" => faults' = faults + 1)
      ]_vars

\* C30: audit trail of booking.  Every successful book commits, together
\* with its Booking row, exactly one HistoryEntry for the new booking id with
\* action booked, oldStatus none and newStatus confirmed; every successful
\* refund commits exactly one HistoryEntry with action refunded, oldStatus
\* confirmed and newStatus refunded; no other step changes the history.
C30_AuditTrail ==
    [][\A c \in Conn :
          /\ BookSucceeds(c) =>
                 /\ db'.hist = Append(db.hist,
                        [bid |-> res'[c].bid, action |-> "booked",
                         old |-> "none", new |-> "confirmed"])
                 /\ \E b \in db'.bookings \ db.bookings : b.id = res'[c].bid
          /\ RefundSucceeds(c) =>
                 db'.hist = Append(db.hist,
                        [bid |-> res'[c].bid, action |-> "refunded",
                         old |-> "confirmed", new |-> "refunded"])
          /\ (\A o \in Conn : ~BookSucceeds(o) /\ ~RefundSucceeds(o)) =>
                 db'.hist = db.hist
      ]_vars

====
